---- MODULE Spec2Model ----
(***************************************************************************)
(* deepBlink prediction pipeline.                                          *)
(*                                                                         *)
(*   src/deepblink/cli.py          _predict, predict_baseline              *)
(*   src/deepblink/cli/_predict.py HandlePredict.predict_adaptive,         *)
(*                                 predict_single, save_output             *)
(*                                                                         *)
(* Python indices are 0-based; TLA+ sequences are 1-based, so the Python   *)
(* expression image.shape[0] is image_shape[1] here, and so on.  Pixel     *)
(* coordinates, loop indices and axis numbers keep their Python values.    *)
(***************************************************************************)
EXTENDS Integers, Sequences, FiniteSets, TLC

\* ------------------------------------------------------------------ bounds
\* Largest plane height/width (0 is the empty plane).
MaxDim == 4
\* Largest model input edge.
MaxEdge == 4
\* Most detections the model reports over one plane.
MaxDet == 2
\* Length of a raw image axis that is not a singleton.
MaxAxis == 2
\* Most files in one run.
MaxFiles == 2

None == "None"

\* ============================================================ cli.py state
\* (entry, pc and error are shared with cli/_predict.py)
VARIABLES
    entry,        \* the function called: "predict_baseline" | "_predict" | "predict_adaptive"
    pc,           \* position inside the running function
    orig_shape,   \* <<H, W>> of the plane handed to predict_baseline (never changed)
    image_max,    \* np.max(image) of the plane as handed in: "zero" | "positive"
    image_values, \* pixel values of `image`: "raw" | "unit" (max 1) | "nan" (0/0)
    image_shape,  \* image.shape, changed by np.pad
    model,        \* the model: [input_shape |-> <<edge, edge>>]
    input_size,   \* cli.py:164
    pad_bottom,   \* cli.py:168
    pad_right,    \* cli.py:169
    crops_shape,  \* crops.shape[0:2], cli.py:173
    i,            \* cli.py:179
    j,            \* cli.py:180
    coords_r,     \* cli.py:176
    coords_c,     \* cli.py:177
    tile_log,     \* per entry of coords_r/coords_c: the tile it came from and its tile-local value
    coords,       \* the returned rows, cli.py:193; none: the row is [None, None]
    tile,         \* shape of the array handed to _predict
    predicted,    \* shapes of the arrays model.predict was called on
    error         \* the exception that ended the call, or None

bvars == <<entry, pc, orig_shape, image_max, image_values, image_shape, model,
           input_size, pad_bottom, pad_right, crops_shape, i, j, coords_r,
           coords_c, tile_log, coords, tile, predicted, error>>

\* ===================================================== cli/_predict.py state
\* An array is a numpy view [shape, strides, offset] on the buffer of the raw
\* image: element idx is the buffer element at offset + SUM idx[k]*strides[k]
\* (strides counted in elements).
VARIABLES
    raw_image,    \* the array handed to predict_adaptive (C-contiguous, never changed)
    descriptor,   \* the list self.shape returns, _predict.py:256
    image,        \* `image`, rebound by expand_dims and moveaxis
    shape,        \* `shape`, the working label list
    order_pos,    \* position in `order` of the running for-loop, _predict.py:259/265
    c_idx,        \* _predict.py:274
    t_idx,        \* _predict.py:275
    z_idx,        \* _predict.py:276
    df,           \* the growing table [columns, rows], _predict.py:273
    planes,       \* the calls of predict_single so far: [tag, view, rows]
    saved,        \* the tables written by save_output, in order
    radius,       \* self.radius: None or an integer
    detector      \* what the model detects on a plane (see predict)

avars == <<raw_image, descriptor, image, shape, order_pos, c_idx, t_idx, z_idx, df,
           planes, saved, radius, detector>>

\* ============================================ cli/_predict.py: state of a run
VARIABLES
    raw_shape,    \* self.raw_shape: [none |-> TRUE] for None, else the string in chars
    file_list,    \* the files of the run: [image, detector] each
    fname_in,     \* 1-based position in file_list of the file in work, 0 before the first
    saved_as      \* per table in `saved`, the file it was written for

rvars == <<raw_shape, file_list, fname_in, saved_as>>

vars == <<bvars, avars, rvars>>

\* ----------------------------------------------------------- pure helpers
\* Whether n is 2^k for a natural k.
RECURSIVE IsPowerOfTwo(_)
IsPowerOfTwo(n) ==
    IF n < 1 THEN FALSE
    ELSE IF n = 1 THEN TRUE
    ELSE IF n % 2 = 1 THEN FALSE
    ELSE IsPowerOfTwo(n \div 2)

\* math.log(n, 2).is_integer(): a math domain error for n = 0, else whether n
\* is a power of two (exact for every edge below 2^29).
LogIsInteger(n) == IsPowerOfTwo(n)

\* deepblink.data.next_multiple(x, k): x's closest higher multiple of k.
next_multiple(x, k) == IF x % k = 0 THEN x ELSE x + (k - (x % k))

\* model.layers[0].output_shape[0][1]: the height of the input layer.
LayerEdge(m) == m.input_shape[1]

\* skimage.util.view_as_windows(image, (w, w), step=step).shape[0:2]; window
\* (a, b) holds the rows a*step .. a*step + w - 1 and the columns
\* b*step .. b*step + w - 1 of the image.
view_as_windows_shape(shp, w, step) ==
    <<((shp[1] - w) \div step) + 1, ((shp[2] - w) \div step) + 1>>

\* _predict without its power-of-two guard.
PredictErrorNoLog(shp, m) ==
    IF shp[1] # shp[2] THEN "ValueError: square"
    ELSE IF shp[1] # m.input_shape[1] THEN "ValueError: match model"
    ELSE None

\* The three guards of _predict, in order; None when the model is called.
PredictError(shp, m) ==
    IF shp[1] # shp[2] THEN "ValueError: square"
    ELSE IF shp[1] = 0 THEN "ValueError: math domain error"
    ELSE IF ~LogIsInteger(shp[1]) THEN "ValueError: power of two"
    ELSE IF shp[1] # m.input_shape[1] THEN "ValueError: match model"
    ELSE None

\* Tile-local coordinates get_coordinate_list can report for a tile of the
\* given edge: the extreme pixel positions of the tile.
LocalValues(edge) == {0, edge - 1}

\* All sequences over S of length at most n.
RECURSIVE SeqsUpTo(_, _)
SeqsUpTo(S, n) ==
    IF n = 0 THEN {<<>>}
    ELSE LET shorter == SeqsUpTo(S, n - 1)
         IN shorter \cup {Append(s, x) : s \in {t \in shorter : Len(t) = n - 1}, x \in S}

\* ------------------------------------------------------- python lists
\* list.index(x): the first 0-based position of x.
ListIndex(s, x) ==
    CHOOSE k \in 0..(Len(s) - 1) :
        s[k + 1] = x /\ \A m \in 0..(k - 1) : s[m + 1] # x

\* The list after list.pop(k).
ListPop(s, k) == SubSeq(s, 1, k) \o SubSeq(s, k + 2, Len(s))

\* The list after list.insert(k, x), k >= 0.
ListInsert(s, k, x) ==
    LET p == IF k > Len(s) THEN Len(s) ELSE k
    IN SubSeq(s, 1, p) \o <<x>> \o SubSeq(s, p + 1, Len(s))

InList(x, s) == \E k \in 1..Len(s) : s[k] = x

\* ------------------------------------------------------------ numpy views
ndim(a) == Len(a.shape)

\* Strides of a freshly loaded (C-contiguous) array of the given shape.
RECURSIVE ContiguousStrides(_)
ContiguousStrides(shp) ==
    IF shp = <<>> THEN <<>>
    ELSE LET rest == ContiguousStrides(Tail(shp))
         IN IF rest = <<>> THEN <<1>>
            ELSE <<rest[1] * shp[2]>> \o rest

\* All index tuples of an array of the given shape.
RECURSIVE Indices(_)
Indices(shp) ==
    IF shp = <<>> THEN {<<>>}
    ELSE {<<k>> \o rest : k \in 0..(shp[1] - 1), rest \in Indices(Tail(shp))}

\* Buffer position of element idx of view a.
RECURSIVE Dot(_, _)
Dot(idx, strides) ==
    IF idx = <<>> THEN 0 ELSE idx[1] * strides[1] + Dot(Tail(idx), Tail(strides))
Offset(a, idx) == a.offset + Dot(idx, a.strides)

\* np.expand_dims(a, axis=-1): a trailing axis of length 1.
expand_dims(a) ==
    [shape |-> Append(a.shape, 1), strides |-> Append(a.strides, 0), offset |-> a.offset]

\* np.transpose(a, axes): axis k of the result is axis axes[k] of a.
transpose(a, axes) ==
    [shape |-> [k \in 1..Len(axes) |-> a.shape[axes[k] + 1]],
     strides |-> [k \in 1..Len(axes) |-> a.strides[axes[k] + 1]],
     offset |-> a.offset]

\* np.moveaxis(a, source, destination): the other axes keep their order and
\* `source` is inserted at `destination`.  AxisError when either is no axis.
moveaxis_ok(a, source, dest) == source < ndim(a) /\ dest < ndim(a)
moveaxis(a, source, dest) ==
    transpose(a, ListInsert(ListPop([k \in 1..ndim(a) |-> k - 1], source), dest, source))

\* a[k]: the k-th sub-array along the first axis, as enumerate(a) yields it.
subview(a, k) ==
    [shape |-> Tail(a.shape), strides |-> Tail(a.strides),
     offset |-> a.offset + k * a.strides[1]]

\* ------------------------------------------------------------------- Init
Models == {[input_shape |-> <<e, e>>] : e \in 1..MaxEdge}

InitCommon ==
    /\ input_size = 0
    /\ pad_bottom = 0
    /\ pad_right = 0
    /\ crops_shape = <<0, 0>>
    /\ i = 0
    /\ j = 0
    /\ coords_r = <<>>
    /\ coords_c = <<>>
    /\ tile_log = <<>>
    /\ coords = <<>>
    /\ predicted = {}
    /\ error = None

\* The state of cli/_predict.py while cli.py runs.
IdleAdaptive ==
    /\ raw_image = [shape |-> <<>>, strides |-> <<>>, offset |-> 0]
    /\ descriptor = <<>>
    /\ image = raw_image
    /\ shape = <<>>
    /\ order_pos = 0
    /\ c_idx = 0
    /\ t_idx = 0
    /\ z_idx = 0
    /\ df = [columns |-> <<>>, rows |-> <<>>]
    /\ planes = <<>>
    /\ saved = <<>>
    /\ radius = None
    /\ detector = "none"

\* The state of the run while a single function is exercised.
IdleRun ==
    /\ raw_shape = [none |-> TRUE, chars |-> <<>>]
    /\ file_list = <<>>
    /\ fname_in = 0
    /\ saved_as = <<>>

\* predict_baseline(image, model) is entered with a 2D plane.
InitBaseline ==
    /\ entry = "predict_baseline"
    /\ pc = "start"
    /\ orig_shape \in (0..MaxDim) \X (0..MaxDim)
    /\ image_shape = orig_shape
    /\ image_max \in {"zero", "positive"}
    /\ image_values = "raw"
    /\ model \in Models
    /\ tile = <<0, 0>>
    /\ InitCommon
    /\ IdleAdaptive
    /\ IdleRun

\* _predict(image, model) is entered with an arbitrary 2D array.
InitPredict ==
    /\ entry = "_predict"
    /\ pc = "call"
    /\ orig_shape = <<0, 0>>
    /\ image_shape = <<0, 0>>
    /\ image_max = "positive"
    /\ image_values = "unit"
    /\ model \in Models
    /\ tile \in (0..MaxEdge) \X (0..MaxEdge)
    /\ InitCommon
    /\ IdleAdaptive
    /\ IdleRun

Init == InitBaseline \/ InitPredict

\* --------------------------------------------------------------- _predict
\* cli.py:136-149.  Raises before the model is touched, or calls
\* model.predict on the array.  The coordinates come back from the caller's
\* choice of what the model detected.
predict_call(shp, m) ==
    IF PredictError(shp, m) = None THEN predicted \cup {shp} ELSE predicted

\* _predict called on its own with an arbitrary array.
PredictDirect ==
    /\ entry = "_predict"
    /\ pc = "call"
    /\ predicted' = predict_call(tile, model)
    /\ error' = PredictError(tile, model)
    /\ pc' = IF PredictError(tile, model) = None THEN "done" ELSE "error"
    /\ UNCHANGED <<entry, orig_shape, image_max, image_values, image_shape, model,
                   input_size, pad_bottom, pad_right, crops_shape, i, j,
                   coords_r, coords_c, tile_log, coords, tile>>
    /\ UNCHANGED avars
    /\ UNCHANGED rvars

\* ------------------------------------------------------- predict_baseline
\* cli.py:164-167.  np.max raises on an empty array; a float plane divided
\* by a zero maximum becomes NaN (a RuntimeWarning, no exception).
normalised_values(max) == IF max = "zero" THEN "nan" ELSE "unit"

Normalise ==
    /\ entry = "predict_baseline"
    /\ pc = "start"
    /\ input_size' = LayerEdge(model)
    /\ IF image_shape[1] = 0 \/ image_shape[2] = 0
       THEN /\ error' = "ValueError: zero-size array"
            /\ pc' = "error"
            /\ UNCHANGED image_values
       ELSE /\ image_values' = normalised_values(image_max)
            /\ pc' = "pad"
            /\ UNCHANGED error
    /\ UNCHANGED <<entry, orig_shape, image_max, image_shape, model, pad_bottom,
                   pad_right, crops_shape, i, j, coords_r, coords_c, tile_log,
                   coords, tile, predicted>>
    /\ UNCHANGED avars
    /\ UNCHANGED rvars

\* cli.py:168-169
pad_bottom_of(shp, size) == next_multiple(shp[1], size) - shp[1]
\* pad_right computed from the height.
pad_right_from_rows(shp, size) == next_multiple(shp[1], size) - shp[1]
pad_right_of(shp, size) == next_multiple(shp[2], size) - shp[2]

\* cli.py:168-175: pad with reflection and cut into windows.
Pad ==
    /\ entry = "predict_baseline"
    /\ pc = "pad"
    /\ pad_bottom' = pad_bottom_of(image_shape, input_size)
    /\ pad_right' = pad_right_of(image_shape, input_size)
    /\ image_shape' = <<image_shape[1] + pad_bottom', image_shape[2] + pad_right'>>
    /\ crops_shape' = view_as_windows_shape(image_shape', input_size, input_size)
    /\ i' = 0
    /\ j' = 0
    /\ pc' = "loop"
    /\ UNCHANGED <<entry, orig_shape, image_max, image_values, model, input_size,
                   coords_r, coords_c, tile_log, coords, tile, predicted, error>>
    /\ UNCHANGED avars
    /\ UNCHANGED rvars

\* cli.py:182-183: the offsets added to a tile's coordinates.
abs_coord_r(r, row, col, size) == r + (col * size)
abs_coord_c(c, row, col, size) == c + (row * size)

\* The next (i, j) of the nested range loops, cli.py:179-180.
NextI == IF j + 1 < crops_shape[2] THEN i ELSE i + 1
NextJ == IF j + 1 < crops_shape[2] THEN j + 1 ELSE 0

\* cli.py:179-186: one iteration of the loop body on crops[i, j].
Tile ==
    /\ entry = "predict_baseline"
    /\ pc = "loop"
    /\ i < crops_shape[1]
    /\ tile' = <<input_size, input_size>>
    /\ predicted' = predict_call(tile', model)
    /\ IF PredictError(tile', model) # None
       THEN /\ error' = PredictError(tile', model)
            /\ pc' = "error"
            /\ UNCHANGED <<i, j, coords_r, coords_c, tile_log>>
       ELSE \E det \in SeqsUpTo(LocalValues(input_size) \X LocalValues(input_size),
                                MaxDet - Len(coords_r)) :
            /\ coords_r' = coords_r \o
                   [k \in 1..Len(det) |-> abs_coord_r(det[k][1], i, j, input_size)]
            /\ coords_c' = coords_c \o
                   [k \in 1..Len(det) |-> abs_coord_c(det[k][2], i, j, input_size)]
            /\ tile_log' = tile_log \o
                   [k \in 1..Len(det) |->
                       [tile_row |-> i, tile_col |-> j,
                        local_y |-> det[k][1], local_x |-> det[k][2]]]
            /\ i' = NextI
            /\ j' = NextJ
            /\ UNCHANGED <<pc, error>>
    /\ UNCHANGED <<entry, orig_shape, image_max, image_values, image_shape, model,
                   input_size, pad_bottom, pad_right, crops_shape, coords>>
    /\ UNCHANGED avars
    /\ UNCHANGED rvars

\* cli.py:189-191: which columns of coords np.where keeps.
keep(r, c, shp) == r < shp[2] /\ c < shp[1]

\* cli.py:188-193: np.where writes None over the rows the mask rejects.
Filter ==
    /\ entry = "predict_baseline"
    /\ pc = "loop"
    /\ i >= crops_shape[1]
    /\ coords' = [k \in 1..Len(coords_r) |->
                     IF keep(coords_r[k], coords_c[k], image_shape)
                     THEN [r |-> coords_r[k], c |-> coords_c[k], none |-> FALSE]
                     ELSE [r |-> coords_r[k], c |-> coords_c[k], none |-> TRUE]]
    /\ pc' = "done"
    /\ UNCHANGED <<entry, orig_shape, image_max, image_values, image_shape, model,
                   input_size, pad_bottom, pad_right, crops_shape, i, j,
                   coords_r, coords_c, tile_log, tile, predicted, error>>
    /\ UNCHANGED avars
    /\ UNCHANGED rvars

Next == PredictDirect \/ Normalise \/ Pad \/ Tile \/ Filter

Spec == Init /\ [][Next]_vars

\* ================================================= claims on cli.py (Spec)
Baseline == entry = "predict_baseline"
H == orig_shape[1]
W == orig_shape[2]
CeilDiv(a, b) == (a + b - 1) \div b

\* C1: every row predict_baseline returns is a coordinate with 0 <= y < H and
\* 0 <= x < W, H and W being the dimensions of the plane before padding.
C1_ReturnedInBounds ==
    (Baseline /\ pc = "done") =>
        \A k \in 1..Len(coords) :
            /\ ~coords[k].none
            /\ 0 <= coords[k].r /\ coords[k].r < H
            /\ 0 <= coords[k].c /\ coords[k].c < W

\* C2: every plane coordinate the tiling loop appends is the tile-local
\* coordinate plus tile_row * tile_edge (rows) and tile_col * tile_edge
\* (columns) of the tile it was decoded from.
C2_RemapTracksTile ==
    Baseline =>
        \A k \in 1..Len(coords_r) :
            /\ coords_r[k] = tile_log[k].local_y + tile_log[k].tile_row * input_size
            /\ coords_c[k] = tile_log[k].local_x + tile_log[k].tile_col * input_size

\* C3: once predict_baseline has padded, pad_bottom = ceil(H/T)*T - H and
\* pad_right = ceil(W/T)*T - W, each in 0..T-1 and 0 exactly when the dimension
\* is a multiple of T; the padded dimensions are multiples of T; and the
\* windows form a ceil(H/T) x ceil(W/T) grid in which every padded row and
\* column lies in exactly one window.
C3_PaddingAndGrid ==
    (Baseline /\ pc \in {"loop", "done"}) =>
        LET T == LayerEdge(model) IN
        /\ pad_bottom = CeilDiv(H, T) * T - H
        /\ pad_right = CeilDiv(W, T) * T - W
        /\ pad_bottom \in 0..(T - 1) /\ pad_right \in 0..(T - 1)
        /\ (pad_bottom = 0) <=> (H % T = 0)
        /\ (pad_right = 0) <=> (W % T = 0)
        /\ image_shape = <<H + pad_bottom, W + pad_right>>
        /\ image_shape[1] % T = 0 /\ image_shape[2] % T = 0
        /\ crops_shape = <<CeilDiv(H, T), CeilDiv(W, T)>>
        /\ \A y \in 0..(image_shape[1] - 1) :
               Cardinality({a \in 0..(crops_shape[1] - 1) :
                               a * input_size <= y /\ y < a * input_size + T}) = 1
        /\ \A x \in 0..(image_shape[2] - 1) :
               Cardinality({b \in 0..(crops_shape[2] - 1) :
                               b * input_size <= x /\ x < b * input_size + T}) = 1

\* A plane that needs padding at the bottom only, cut into several windows.
C3_Witness ==
    /\ Baseline /\ pc = "loop"
    /\ pad_bottom > 0 /\ pad_right = 0
    /\ crops_shape[1] >= 2 /\ crops_shape[2] >= 2

\* C8: a plane that is empty or whose maximum is zero ends predict_baseline
\* with an error before anything is padded, tiled or given to the model.
C8_DegenerateFails ==
    (Baseline /\ pc # "start" /\ (image_max = "zero" \/ H = 0 \/ W = 0)) =>
        /\ pc = "error"
        /\ image_shape = orig_shape
        /\ predicted = {}

\* C9: model.predict is only ever called on a square array whose edge is a
\* power of two and equals the model's input edge; _predict on an array that
\* breaks one of the three ends in an error with no call; and the windows
\* predict_baseline cuts are square with the model's edge, so they are refused
\* exactly when that edge is no power of two.
PowerOfTwo(n) == \E k \in 0..n : 2^k = n
Acceptable(shp) ==
    /\ shp[1] = shp[2]
    /\ PowerOfTwo(shp[1])
    /\ shp[1] = model.input_shape[1]

C9_PredictGuards ==
    /\ \A s \in predicted : Acceptable(s)
    /\ (entry = "_predict" /\ pc # "call") =>
           IF Acceptable(tile)
           THEN pc = "done" /\ error = None /\ predicted = {tile}
           ELSE pc = "error" /\ error # None /\ predicted = {}
    /\ (Baseline /\ pc \in {"loop", "done"} /\ (i > 0 \/ j > 0)) =>
           /\ tile = <<LayerEdge(model), LayerEdge(model)>>
           /\ predicted = {tile}
    /\ (Baseline /\ error \notin {None, "ValueError: zero-size array"}) =>
           /\ tile = <<LayerEdge(model), LayerEdge(model)>>
           /\ ~PowerOfTwo(tile[1])
           /\ predicted = {}

\* predict_baseline stopped on its first window because the model's edge is
\* no power of two.
C9_Witness ==
    /\ Baseline /\ pc = "error"
    /\ error = "ValueError: power of two"
    /\ tile = <<input_size, input_size>>
    /\ predicted = {}

\* C14: the rows predict_baseline returns are exactly the detections whose
\* plane coordinates lie inside the unpadded plane (abs_y < H and abs_x < W),
\* in order and with their values unchanged; a detection in the padding
\* contributes no row.
C14_FilterExact ==
    (Baseline /\ pc = "done") =>
        LET inside(k) == coords_r[k] < H /\ coords_c[k] < W
            kept == SelectSeq([k \in 1..Len(coords_r) |-> k], inside)
        IN /\ Len(coords) = Len(kept)
           /\ \A m \in 1..Len(coords) :
                  /\ m <= Len(kept)
                  /\ ~coords[m].none
                  /\ coords[m].r = coords_r[kept[m]]
                  /\ coords[m].c = coords_c[kept[m]]

\* ======================================= cli/_predict.py: predict_adaptive
\* _predict.py:255
order == <<"c", "t", "z", "y", "x">>
Labels == {order[k] : k \in 1..Len(order)}

\* The lists self.shape can return for a descriptor made of distinct
\* canonical labels that names both y and x.
Descriptors ==
    {d \in UNION {[1..m -> Labels] : m \in 2..Len(order)} :
        /\ \A a, b \in 1..Len(d) : a # b => d[a] # d[b]
        /\ InList("y", d) /\ InList("x", d)}

\* What the model finds on a plane: nothing, one spot at the origin, spots at
\* two opposite corners, spots on the first plane only, or an exception on
\* the first plane or on every later one.
Detectors == {"none", "origin", "corners", "first_plane", "fail_first", "fail_later"}

\* Descriptors for which every detector and radius is tried.
TableDescriptors == {order, <<"y", "x">>, <<"t", "y", "x", "c">>}

RawImages(rank) ==
    {[shape |-> shp, strides |-> ContiguousStrides(shp), offset |-> 0] :
        shp \in [1..rank -> {1, MaxAxis}]}

\* The state of cli.py while cli/_predict.py runs.
IdleBaseline ==
    /\ orig_shape = <<0, 0>>
    /\ image_shape = <<0, 0>>
    /\ image_max = "positive"
    /\ image_values = "raw"
    /\ model = [input_shape |-> <<1, 1>>]
    /\ tile = <<0, 0>>
    /\ InitCommon

\* predict_adaptive(fname_in, image) is entered; `shape = self.shape`.
InitAdaptive ==
    /\ entry = "predict_adaptive"
    /\ pc = "expand"
    /\ descriptor \in Descriptors
    /\ raw_image \in RawImages(Len(descriptor))
    /\ image = raw_image
    /\ shape = descriptor
    /\ detector \in (IF descriptor \in TableDescriptors THEN Detectors ELSE {"corners"})
    /\ radius \in (IF descriptor \in TableDescriptors THEN {<<>>, <<0>>} ELSE {<<>>})
    /\ order_pos = 0
    /\ c_idx = 0
    /\ t_idx = 0
    /\ z_idx = 0
    /\ df = [columns |-> <<>>, rows |-> <<>>]
    /\ planes = <<>>
    /\ saved = <<>>
    /\ IdleBaseline
    /\ IdleRun

\* _predict.py:259-262: one iteration of `for i in order`.
Expand ==
    /\ entry = "predict_adaptive"
    /\ pc = "expand"
    /\ LET label == order[order_pos + 1] IN
       IF ~InList(label, shape)
       THEN /\ image' = expand_dims(image)
            /\ shape' = Append(shape, label)
       ELSE UNCHANGED <<image, shape>>
    /\ IF order_pos + 1 < Len(order)
       THEN order_pos' = order_pos + 1 /\ pc' = pc
       ELSE order_pos' = 0 /\ pc' = "move"
    /\ UNCHANGED <<entry, error, raw_image, descriptor, c_idx, t_idx, z_idx, df,
                   planes, saved, radius, detector>>
    /\ UNCHANGED <<orig_shape, image_max, image_values, image_shape, model,
                   input_size, pad_bottom, pad_right, crops_shape, i, j,
                   coords_r, coords_c, tile_log, coords, tile, predicted>>
    /\ UNCHANGED rvars

\* _predict.py:265: `enumerate(order)` counts from 0.
enumerate_from_one(pos) == pos + 1
destination_of(pos) == pos

\* _predict.py:268: shape.insert(destination, shape.pop(source))
swap_labels(labels, source, dest) ==
    [k \in 1..Len(labels) |->
        IF k = source + 1 THEN labels[dest + 1]
        ELSE IF k = dest + 1 THEN labels[source + 1]
        ELSE labels[k]]
move_label(labels, source, dest) ==
    ListInsert(ListPop(labels, source), dest, labels[source + 1])

\* _predict.py:265-270: one iteration of `for destination, name in
\* enumerate(order)`; the comparison with `order` after the loop only logs.
Move ==
    /\ entry = "predict_adaptive"
    /\ pc = "move"
    /\ LET name == order[order_pos + 1]
           dest == destination_of(order_pos)
           source == ListIndex(shape, name)
       IN IF moveaxis_ok(image, source, dest)
          THEN /\ image' = moveaxis(image, source, dest)
               /\ shape' = move_label(shape, source, dest)
               /\ IF order_pos + 1 < Len(order)
                  THEN order_pos' = order_pos + 1 /\ pc' = pc
                  ELSE order_pos' = 0 /\ pc' = "iterate"
               /\ UNCHANGED error
          ELSE /\ error' = "AxisError"
               /\ pc' = "error"
               /\ UNCHANGED <<image, shape, order_pos>>
    /\ UNCHANGED <<entry, raw_image, descriptor, c_idx, t_idx, z_idx, df,
                   planes, saved, radius, detector>>
    /\ UNCHANGED <<orig_shape, image_max, image_values, image_shape, model,
                   input_size, pad_bottom, pad_right, crops_shape, i, j,
                   coords_r, coords_c, tile_log, coords, tile, predicted>>
    /\ UNCHANGED rvars

\* deepblink.inference.predict(image, model) on one plane: the coordinates
\* (y, x) found, inside the plane, or an exception.
predict(view, det) ==
    LET origin == <<0, 0>>
        corner == <<view.shape[1] - 1, view.shape[2] - 1>>
        first == view.offset = 0
    IN CASE det = "none" -> [ok |-> TRUE, coords |-> <<>>]
         [] det = "origin" -> [ok |-> TRUE, coords |-> <<origin>>]
         [] det = "corners" -> [ok |-> TRUE, coords |-> <<origin, corner>>]
         [] det = "first_plane" ->
                [ok |-> TRUE, coords |-> IF first THEN <<origin, corner>> ELSE <<>>]
         [] det = "fail_first" ->
                [ok |-> ~first, coords |-> <<origin>>]
         [] det = "fail_later" ->
                [ok |-> first, coords |-> <<origin>>]

\* deepblink.inference.get_intensities(image, coords, 0): the pixel under each
\* coordinate.  The raw image is np.arange, so a pixel's value is its buffer
\* position.
get_intensities(view, found) ==
    [k \in 1..Len(found) |-> Offset(view, found[k])]

\* _predict.py:244-251: the table of one plane.
predict_single_columns == <<"y", "x", "c", "t", "z">> \o (IF radius = <<>> THEN <<>> ELSE <<"i">>)
predict_single(view, found, c, t, z) ==
    [columns |-> predict_single_columns,
     rows |-> [k \in 1..Len(found) |->
                 [col \in {predict_single_columns[m] : m \in 1..Len(predict_single_columns)} |->
                     CASE col = "y" -> found[k][1]
                       [] col = "x" -> found[k][2]
                       [] col = "c" -> c
                       [] col = "t" -> t
                       [] col = "z" -> z
                       [] col = "i" -> get_intensities(view, found)[k]]]]

\* _predict.py:278: df.append(curr_df)
df_prepend(table, curr) ==
    [columns |-> curr.columns, rows |-> curr.rows \o table.rows]
df_append(table, curr) ==
    [columns |-> IF table.columns = <<>> THEN curr.columns ELSE table.columns,
     rows |-> table.rows \o curr.rows]

\* _predict.py:277: nothing catches an exception of predict_single; it leaves
\* predict_adaptive.
skip_failed_planes == "save"
uncaught == "error"

\* _predict.py:274-278: one iteration of the innermost loop body.
Plane ==
    /\ entry = "predict_adaptive"
    /\ pc = "iterate"
    /\ LET single_image == subview(subview(subview(image, c_idx), t_idx), z_idx)
           result == predict(single_image, detector)
           curr_df == predict_single(single_image, result.coords, c_idx, t_idx, z_idx)
       IN IF result.ok
          THEN /\ df' = df_append(df, curr_df)
               /\ planes' = Append(planes,
                      [tag |-> <<c_idx, t_idx, z_idx>>, view |-> single_image,
                       rows |-> curr_df.rows])
               /\ IF z_idx + 1 < image.shape[3]
                  THEN UNCHANGED <<c_idx, t_idx, pc>> /\ z_idx' = z_idx + 1
                  ELSE IF t_idx + 1 < image.shape[2]
                  THEN UNCHANGED <<c_idx, pc>> /\ t_idx' = t_idx + 1 /\ z_idx' = 0
                  ELSE IF c_idx + 1 < image.shape[1]
                  THEN UNCHANGED pc /\ c_idx' = c_idx + 1 /\ t_idx' = 0 /\ z_idx' = 0
                  ELSE UNCHANGED <<c_idx, t_idx, z_idx>> /\ pc' = "save"
               /\ UNCHANGED error
          ELSE /\ error' = "predict failed"
               /\ pc' = uncaught
               /\ UNCHANGED <<df, planes, c_idx, t_idx, z_idx>>
    /\ UNCHANGED <<entry, raw_image, descriptor, image, shape, order_pos, saved,
                   radius, detector>>
    /\ UNCHANGED <<orig_shape, image_max, image_values, image_shape, model,
                   input_size, pad_bottom, pad_right, crops_shape, i, j,
                   coords_r, coords_c, tile_log, coords, tile, predicted>>
    /\ UNCHANGED rvars

\* Number of distinct values in a column.
nunique(table, col) == Cardinality({table.rows[k][col] : k \in 1..Len(table.rows)})

\* deepblink.util.delete_non_unique_columns(df): drop every column other than
\* y and x that holds at most one distinct value.
delete_non_unique_columns(table) ==
    LET kept(col) == col \in {"y", "x"} \/ nunique(table, col) > 1
        columns == SelectSeq(table.columns, kept)
    IN [columns |-> columns,
        rows |-> [k \in 1..Len(table.rows) |->
                    [col \in {columns[m] : m \in 1..Len(columns)} |-> table.rows[k][col]]]]

\* _predict.py:232-235: what save_output writes for df.
written_unpruned(table) == table
written(table) == delete_non_unique_columns(table)

\* _predict.py:280-281 and 229-238: save_output(fname_in, df).
Save ==
    /\ entry = "predict_adaptive"
    /\ pc = "save"
    /\ saved' = Append(saved, written(df))
    /\ pc' = "done"
    /\ UNCHANGED <<entry, error, raw_image, descriptor, image, shape, order_pos,
                   c_idx, t_idx, z_idx, df, planes, radius, detector>>
    /\ UNCHANGED <<orig_shape, image_max, image_values, image_shape, model,
                   input_size, pad_bottom, pad_right, crops_shape, i, j,
                   coords_r, coords_c, tile_log, coords, tile, predicted>>
    /\ saved_as' = Append(saved_as, fname_in)
    /\ UNCHANGED <<raw_shape, file_list, fname_in>>

NextAdaptive == Expand \/ Move \/ Plane \/ Save

SpecAdaptive == InitAdaptive /\ [][NextAdaptive]_vars

\* =================================== claims on predict_adaptive (SpecAdaptive)
Adaptive == entry = "predict_adaptive"

\* The descriptor is made of distinct canonical labels, names y and x, and has
\* one label per axis of the raw image.
WellFormed ==
    /\ \A a \in 1..Len(descriptor) : descriptor[a] \in Labels
    /\ \A a, b \in 1..Len(descriptor) : a # b => descriptor[a] # descriptor[b]
    /\ InList("y", descriptor) /\ InList("x", descriptor)
    /\ Len(descriptor) = ndim(raw_image)

\* Position (1-based) of a label in the working list.
AxisOf(label) == CHOOSE k \in 1..Len(shape) : shape[k] = label

\* The raw index that element idx of `image` comes from, reading each raw
\* axis's index off the image axis that carries its label.
RawIndex(idx) == [a \in 1..Len(descriptor) |-> idx[AxisOf(descriptor[a])]]

\* C4: for a well-formed descriptor, after every step of the normalization
\* the working label list has one distinct label per image axis, every element
\* of the image is the raw element found by reading the raw axes' indices off
\* the labelled image axes, the axes whose label the descriptor lacks have
\* length 1, no step fails, and once the move loop is over the list is
\* [c, t, z, y, x].
C4_LabelsDescribeAxes ==
    (Adaptive /\ WellFormed) =>
        /\ error # "AxisError"
        /\ Len(shape) = ndim(image)
        /\ \A a, b \in 1..Len(shape) : a # b => shape[a] # shape[b]
        /\ \A a \in 1..Len(descriptor) : InList(descriptor[a], shape)
        /\ \A k \in 1..Len(shape) : ~InList(shape[k], descriptor) => image.shape[k] = 1
        /\ \A idx \in Indices(image.shape) :
               Offset(image, idx) = Offset(raw_image, RawIndex(idx))
        /\ (pc \in {"iterate", "save", "done"}) => shape = order

\* A three-axis raw image given in the order (x, z, y), all axes longer than
\* one, after the whole normalization.
C4_Witness ==
    /\ Adaptive /\ pc = "iterate"
    /\ descriptor = <<"x", "z", "y">>
    /\ raw_image.shape = <<MaxAxis, MaxAxis, MaxAxis>>
    /\ shape = order
    /\ image.shape = <<1, 1, MaxAxis, MaxAxis, MaxAxis>>

\* C5: with the full canonical descriptor no axis is inserted or moved (the
\* image stays the raw view and the list stays [c, t, z, y, x]), and the plane
\* handed to predict_single with tag (c, t, z) is raw_image[c, t, z].
C5_CanonicalIsIdentity ==
    (Adaptive /\ descriptor = order) =>
        /\ image = raw_image
        /\ shape = order
        /\ error # "AxisError"
        /\ \A p \in 1..Len(planes) :
               LET plane == planes[p] IN
               /\ plane.view.shape = <<raw_image.shape[4], raw_image.shape[5]>>
               /\ \A yx \in Indices(plane.view.shape) :
                      Offset(plane.view, yx) = Offset(raw_image, plane.tag \o yx)

\* A canonical image with more than one plane, all planes handed over.
C5_Witness ==
    /\ Adaptive /\ pc = "done"
    /\ descriptor = order
    /\ raw_image.shape = <<MaxAxis, MaxAxis, MaxAxis, MaxAxis, MaxAxis>>
    /\ Len(planes) = MaxAxis * MaxAxis * MaxAxis

\* The n-th (1-based) tag of the lexicographic order over C x T x Z, c
\* outermost and z innermost.
LexTag(k, T, Z) == <<(k - 1) \div (T * Z), ((k - 1) \div Z) % T, (k - 1) % Z>>

RECURSIVE ConcatRows(_, _)
ConcatRows(ps, k) == IF k = 0 THEN <<>> ELSE ConcatRows(ps, k - 1) \o ps[k].rows

\* C6: over the canonical-order array the planes are handed to predict_single
\* in lexicographic (c, t, z) order, one per combination, each being
\* image[c, t, z]; every row of a plane carries the plane's indices; the table
\* is the concatenation of the planes' rows in that order; and the table is
\* saved after exactly C*T*Z planes.
C6_PlaneOrder ==
    (Adaptive /\ pc \in {"iterate", "save", "done", "error"} /\ error # "AxisError") =>
        LET C == image.shape[1]
            T == image.shape[2]
            Z == image.shape[3]
        IN /\ Len(planes) <= C * T * Z
           /\ \A k \in 1..Len(planes) :
                  /\ planes[k].tag = LexTag(k, T, Z)
                  /\ planes[k].view = subview(subview(subview(image,
                         planes[k].tag[1]), planes[k].tag[2]), planes[k].tag[3])
                  /\ \A r \in 1..Len(planes[k].rows) :
                         /\ planes[k].rows[r]["c"] = planes[k].tag[1]
                         /\ planes[k].rows[r]["t"] = planes[k].tag[2]
                         /\ planes[k].rows[r]["z"] = planes[k].tag[3]
           /\ df.rows = ConcatRows(planes, Len(planes))
           /\ (pc = "iterate" /\ Len(planes) < C * T * Z) =>
                  <<c_idx, t_idx, z_idx>> = LexTag(Len(planes) + 1, T, Z)
           /\ (pc \in {"save", "done"}) => Len(planes) = C * T * Z
           /\ (pc = "done") => Len(saved) = 1

\* Eight planes with two distinct rows each, all processed and saved.
C6_Witness ==
    /\ Adaptive /\ pc = "done"
    /\ image.shape[1] = MaxAxis /\ image.shape[2] = MaxAxis /\ image.shape[3] = MaxAxis
    /\ detector = "corners"
    /\ image.shape[4] = MaxAxis
    /\ Len(df.rows) = 2 * Len(planes)

ColumnSet(table) == {table.columns[k] : k \in 1..Len(table.columns)}

\* C7: the table save_output writes holds exactly the columns of df that are
\* y, x or have more than one distinct value over the table, in df's order,
\* with df's rows restricted to them; y and x are always among them; and for
\* an input with a single c, t and z the columns c, t, z are absent.
C7_ColumnPruning ==
    (Adaptive /\ pc = "done") =>
        LET out == saved[Len(saved)]
            stays(col) == col \in {"y", "x"} \/
                Cardinality({df.rows[k][col] : k \in 1..Len(df.rows)}) >= 2
        IN /\ out.columns = SelectSeq(df.columns, stays)
           /\ {"y", "x"} \subseteq ColumnSet(out)
           /\ Len(out.rows) = Len(df.rows)
           /\ \A k \in 1..Len(out.rows) :
                  /\ DOMAIN out.rows[k] = ColumnSet(out)
                  /\ \A col \in ColumnSet(out) : out.rows[k][col] = df.rows[k][col]
           /\ (image.shape[1] = 1 /\ image.shape[2] = 1 /\ image.shape[3] = 1) =>
                  ColumnSet(out) \cap {"c", "t", "z"} = {}

\* A single plane with two detections at the same point: only y and x are
\* written.
C7_Witness ==
    /\ Adaptive /\ pc = "done"
    /\ Len(df.rows) = 2
    /\ df.rows[1] = df.rows[2]
    /\ saved[1].columns = <<"y", "x">>
    /\ Len(saved[1].rows) = 2

\* C10: a table is written only when every (c, t, z) plane of the image was
\* processed without an exception; after an exception nothing is written.
C10_NoPartialTable ==
    Adaptive =>
        /\ (error # None) => saved = <<>>
        /\ (saved # <<>>) =>
               /\ Len(planes) = image.shape[1] * image.shape[2] * image.shape[3]
               /\ Len(saved) = 1
               /\ Len(saved[1].rows) = Len(ConcatRows(planes, Len(planes)))

\* A later plane failed after an earlier one had produced rows.
C10_Witness ==
    /\ Adaptive /\ pc = "error"
    /\ error = "predict failed"
    /\ Len(planes) >= 1
    /\ df.rows # <<>>
    /\ saved = <<>>

\* ================================ cli/_predict.py: HandlePredict.__call__
\* str.replace(ch, ""): the string without the character.
str_remove(str, ch) ==
    LET other(x) == x # ch IN SelectSeq(str, other)

\* str.split(sep): the pieces between the separators ("".split(",") is [""]).
RECURSIVE str_split(_, _)
str_split(str, sep) ==
    IF \A k \in 1..Len(str) : str[k] # sep THEN <<str>>
    ELSE LET cut == CHOOSE k \in 1..Len(str) :
                        str[k] = sep /\ \A m \in 1..(k - 1) : str[m] # sep
         IN <<SubSeq(str, 1, cut - 1)>> \o str_split(SubSeq(str, cut + 1, Len(str)), sep)

\* A piece of the split as a label: its character when it has exactly one
\* (the documented form), a piece of any other length is no axis label.
token_label(tok) == IF Len(tok) = 1 THEN tok[1] ELSE "<token>"

\* _predict.py:224-227: strip "(", ")" and " ", then split at ",".
shape_list(str) ==
    LET stripped == str_remove(str_remove(str_remove(str, "("), ")"), " ")
        pieces == str_split(stripped, ",")
    IN [k \in 1..Len(pieces) |-> token_label(pieces[k])]

\* "(" + ",".join(labels) + ")"
RECURSIVE join(_)
join(labels) ==
    IF labels = <<>> THEN <<>>
    ELSE IF Len(labels) = 1 THEN <<labels[1]>>
    ELSE <<labels[1], ",">> \o join(Tail(labels))
format_shape(labels) == <<"(">> \o join(labels) \o <<")">>

\* deepblink.util.predict_shape(shape): the two largest axes (the later axis
\* winning a tie) are y and x in axis order, the others c, t, z in axis order.
predict_shape(shp) ==
    LET beats(b, a) == shp[b] > shp[a] \/ (shp[b] = shp[a] /\ b > a)
        spatial(a) == Cardinality({b \in 1..Len(shp) : beats(b, a)}) <= 1
        label(a) ==
            IF spatial(a)
            THEN (IF \E b \in 1..(a - 1) : spatial(b) THEN "x" ELSE "y")
            ELSE <<"c", "t", "z">>[Cardinality({b \in 1..a : ~spatial(b)})]
    IN format_shape([a \in 1..Len(shp) |-> label(a)])

\* _predict.py:211: every image has the number of dimensions of the first.
same_ndim(files) == \A f \in 1..Len(files) : ndim(files[f].image) = ndim(files[1].image)

\* A shape property that keeps handing out one list object: after the first
\* image the caller's working list is what it returns.
self_shape_cached ==
    IF fname_in = 0
    THEN shape_list(IF raw_shape.none THEN predict_shape(file_list[1].image.shape)
                    ELSE raw_shape.chars)
    ELSE shape

\* _predict.py:218-227: the list the shape property builds, anew on every
\* access, from self.raw_shape or from the first image's shape.
self_shape ==
    shape_list(IF raw_shape.none THEN predict_shape(file_list[1].image.shape)
               ELSE raw_shape.chars)

\* The declared descriptors of a run: well-formed ones of two and three axes
\* (one with blanks), an RGB marker, a duplicate label, one lacking x, and a
\* five-label one.
RawShapes ==
    {[none |-> TRUE, chars |-> <<>>]} \cup
    {[none |-> FALSE, chars |-> str] : str \in
        {format_shape(<<"y", "x">>), format_shape(<<"x", "y">>),
         format_shape(<<"z", "y", "x">>), format_shape(<<"y", "x", "t">>),
         <<"(", " ", "c", ",", " ", "y", ",", " ", "x", " ", ")">>,
         format_shape(<<"y", "x", "3">>), format_shape(<<"y", "y", "x">>),
         format_shape(<<"c", "y">>), format_shape(order)}}

\* Numbers of dimensions of the images of a run.
RunRanks == {Len(order) - 3, Len(order) - 2}

\* The image file of a run with the given number of dimensions.
RunImage(rank) ==
    LET shp == [k \in 1..rank |-> MaxAxis]
    IN [shape |-> shp, strides |-> ContiguousStrides(shp), offset |-> 0]

RunFiles ==
    {[image |-> RunImage(rank), detector |-> det] :
        rank \in RunRanks, det \in {"corners", "fail_first", "fail_later"}}

\* HandlePredict.__call__ is entered.
InitRun ==
    /\ entry = "__call__"
    /\ pc = "call"
    /\ error = None
    /\ raw_shape \in RawShapes
    /\ file_list \in UNION {[1..m -> RunFiles] : m \in 1..MaxFiles}
    /\ fname_in = 0
    /\ saved_as = <<>>
    /\ raw_image = [shape |-> <<>>, strides |-> <<>>, offset |-> 0]
    /\ descriptor = <<>>
    /\ image = raw_image
    /\ shape = <<>>
    /\ order_pos = 0
    /\ c_idx = 0
    /\ t_idx = 0
    /\ z_idx = 0
    /\ df = [columns |-> <<>>, rows |-> <<>>]
    /\ planes = <<>>
    /\ saved = <<>>
    /\ radius = <<>>
    /\ detector = "none"
    /\ orig_shape = <<0, 0>>
    /\ image_shape = <<0, 0>>
    /\ image_max = "positive"
    /\ image_values = "raw"
    /\ model = [input_shape |-> <<1, 1>>]
    /\ tile = <<0, 0>>
    /\ input_size = 0
    /\ pad_bottom = 0
    /\ pad_right = 0
    /\ crops_shape = <<0, 0>>
    /\ i = 0
    /\ j = 0
    /\ coords_r = <<>>
    /\ coords_c = <<>>
    /\ tile_log = <<>>
    /\ coords = <<>>
    /\ predicted = {}

\* _predict.py:159-160 and 253-256, 273: the loop takes the next file and
\* enters predict_adaptive, which reads self.shape (ValueError when the
\* images differ in their number of dimensions).
Call ==
    /\ file_list # <<>>
    /\ pc \in {"call", "done"}
    /\ fname_in < Len(file_list)
    /\ fname_in' = fname_in + 1
    /\ entry' = "predict_adaptive"
    /\ raw_image' = file_list[fname_in'].image
    /\ image' = raw_image'
    /\ detector' = file_list[fname_in'].detector
    /\ order_pos' = 0
    /\ c_idx' = 0
    /\ t_idx' = 0
    /\ z_idx' = 0
    /\ df' = [columns |-> <<>>, rows |-> <<>>]
    /\ planes' = <<>>
    /\ IF same_ndim(file_list)
       THEN /\ descriptor' = self_shape
            /\ shape' = self_shape
            /\ pc' = "expand"
            /\ UNCHANGED error
       ELSE /\ error' = "ValueError: dimensions"
            /\ pc' = "error"
            /\ UNCHANGED <<descriptor, shape>>
    /\ UNCHANGED <<saved, radius, raw_shape, file_list, saved_as>>
    /\ UNCHANGED <<orig_shape, image_max, image_values, image_shape, model,
                   input_size, pad_bottom, pad_right, crops_shape, i, j,
                   coords_r, coords_c, tile_log, coords, tile, predicted>>

\* _predict.py:162: the loop is over.
Finish ==
    /\ file_list # <<>>
    /\ pc = "done"
    /\ fname_in = Len(file_list)
    /\ entry' = "__call__"
    /\ pc' = "finished"
    /\ UNCHANGED <<orig_shape, image_max, image_values, image_shape, model,
                   input_size, pad_bottom, pad_right, crops_shape, i, j,
                   coords_r, coords_c, tile_log, coords, tile, predicted, error>>
    /\ UNCHANGED avars
    /\ UNCHANGED rvars

NextRun == Call \/ Expand \/ Move \/ Plane \/ Save \/ Finish

SpecRun == InitRun /\ [][NextRun]_vars

\* =============================================== claims on a run (SpecRun)
\* The file's own prediction raises on none of its planes.
Healthy(f) == file_list[f].detector \notin {"fail_first", "fail_later"}

\* C11: when the prediction of one file fails, every other file of the list
\* whose own prediction does not fail still has its table written, wherever
\* the failing file stands in the list.
C11_FailureIsolated ==
    (Adaptive /\ file_list # <<>> /\ pc = "error" /\ error = "predict failed") =>
        \A f \in 1..Len(file_list) :
            (f # fname_in /\ Healthy(f)) => InList(f, saved_as)

\* C12: an image whose working label list is not [c, t, z, y, x] after the
\* insertions and moves is refused: while the list differs from the canonical
\* order the image is still being normalized or has ended in an error, none of
\* its planes was processed and no table was written for it.
C12_MisalignedRefused ==
    (Adaptive /\ file_list # <<>> /\ shape # order) =>
        /\ pc \in {"expand", "move", "error"}
        /\ planes = <<>>
        /\ ~InList(fname_in, saved_as)

\* C13: an image whose planes are iterated has a descriptor that names both
\* x and y and has as many labels as the raw image has dimensions.
C13_DescriptorFitsImage ==
    (Adaptive /\ file_list # <<>> /\ (pc \in {"iterate", "save", "done"} \/ planes # <<>>)) =>
        /\ InList("x", descriptor)
        /\ InList("y", descriptor)
        /\ Len(descriptor) = ndim(raw_image)

\* The label list the run's descriptor stands for.
DeclaredLabels ==
    shape_list(IF raw_shape.none THEN predict_shape(file_list[1].image.shape)
               ELSE raw_shape.chars)

\* C15: self.raw_shape is never modified, and every image of a run starts its
\* normalization from the label list of the declared (or predicted)
\* descriptor, whatever was appended to and reordered in the working list of
\* the images before it.
C15_DescriptorKept ==
    /\ [][raw_shape' = raw_shape]_vars
    /\ [](Adaptive /\ file_list # <<>> /\ pc = "expand" /\ order_pos = 0 =>
              /\ shape = DeclaredLabels
              /\ descriptor = DeclaredLabels)

\* The second image of a run starts from the three declared labels after the
\* first image's list had grown to five and its table was written.
C15_Witness ==
    /\ Adaptive /\ fname_in = 2
    /\ pc = "expand" /\ order_pos = 0
    /\ saved_as = <<1>>
    /\ raw_shape.chars = format_shape(<<"z", "y", "x">>)
    /\ shape = <<"z", "y", "x">>

====
